---------------------------- MODULE Spec2Model ----------------------------
(***************************************************************************)
(* A model of miniGit (src/minigit.cpp, src/minigit.h, src/main.cpp): the  *)
(* content-addressed object store, the staging index file, the HEAD file   *)
(* and the commands init, add, commit and log.                             *)
(*                                                                         *)
(* Text is modelled as text: a std::string is a sequence of one-character  *)
(* strings, a file is the sequence of characters it holds, and the index   *)
(* file and the commit objects are written and parsed character by         *)
(* character the way the code writes and parses them.                      *)
(***************************************************************************)
EXTENDS Integers, Sequences, FiniteSets, TLC

(***************************************************************************)
(* Characters.                                                             *)
(***************************************************************************)

\* The printable ASCII characters, 32 (space) to 126, in code order. The
\* grave accent (96) cannot be written in a string literal and is held by
\* its name; no text of the model contains it.
Printable ==
  << " ", "!", "\"", "#", "$", "%", "&", "'", "(", ")", "*", "+", ",", "-",
     ".", "/", "0", "1", "2", "3", "4", "5", "6", "7", "8", "9", ":", ";",
     "<", "=", ">", "?", "@", "A", "B", "C", "D", "E", "F", "G", "H", "I",
     "J", "K", "L", "M", "N", "O", "P", "Q", "R", "S", "T", "U", "V", "W",
     "X", "Y", "Z", "[", "\\", "]", "^", "_", "grave", "a", "b", "c", "d", "e",
     "f", "g", "h", "i", "j", "k", "l", "m", "n", "o", "p", "q", "r", "s",
     "t", "u", "v", "w", "x", "y", "z", "{", "|", "}", "~" >>

\* The characters of the model: printable ASCII, tab and line feed.
Char == {Printable[i] : i \in 1..Len(Printable)} \cup {"\t", "\n"}

\* The byte value of a character (what std::hash and operator< see).
CharCode ==
  [c \in Char |->
     IF c = "\t" THEN 9
     ELSE IF c = "\n" THEN 10
     ELSE 31 + (CHOOSE i \in 1..Len(Printable) : Printable[i] = c)]

\* std::isspace in the "C" locale, as operator>> on a stream skips it.
IsSpace(c) == c \in {" ", "\t", "\n"}

(***************************************************************************)
(* Strings and maps.                                                       *)
(***************************************************************************)

\* s.rfind(prefix, 0) == 0 : s starts with prefix.
StartsWith(s, prefix) ==
  /\ Len(s) >= Len(prefix)
  /\ \A i \in 1..Len(prefix) : s[i] = prefix[i]

\* s.substr(n) : s without its first n characters.
Substr(s, n) == SubSeq(s, n + 1, Len(s))

\* The k-th smallest member of a finite set of integers.
Nth(S, k) == CHOOSE x \in S : Cardinality({y \in S : y < x}) = k - 1

\* std::getline over a whole text: the lines between line feeds; a last line
\* without a line feed counts when it is not empty. LineEnds holds the
\* position just past each line.
LineEnds(text) ==
  {i \in 1..Len(text) : text[i] = "\n"}
  \cup (IF Len(text) > 0 /\ text[Len(text)] # "\n" THEN {Len(text) + 1} ELSE {})

Lines(text) ==
  LET ends == LineEnds(text)
  IN  [k \in 1..Cardinality(ends) |->
         SubSeq(text, IF k = 1 THEN 1 ELSE Nth(ends, k - 1) + 1, Nth(ends, k) - 1)]

\* Repeated operator>> into std::string: the maximal runs of characters that
\* are not white space.
Words(line) ==
  LET first == {i \in 1..Len(line) :
                  ~IsSpace(line[i]) /\ (i = 1 \/ IsSpace(line[i - 1]))}
      final == {i \in 1..Len(line) :
                  ~IsSpace(line[i]) /\ (i = Len(line) \/ IsSpace(line[i + 1]))}
  IN  [k \in 1..Cardinality(first) |-> SubSeq(line, Nth(first, k), Nth(final, k))]

\* operator< of std::string: lexicographic order of the bytes. i is the first
\* position at which s and t differ, or at which s has ended.
StrLess(s, t) ==
  \E i \in 1..Len(t) :
    /\ \A j \in 1..(i - 1) : j <= Len(s) /\ s[j] = t[j]
    /\ i > Len(s) \/ CharCode[s[i]] < CharCode[t[i]]

\* The keys of a std::map<std::string, ...> in iteration order.
SortedKeys(keys) ==
  [k \in 1..Cardinality(keys) |->
     CHOOSE x \in keys : Cardinality({y \in keys : StrLess(y, x)}) = k - 1]

\* A std::map<std::string, std::string> is a function on a finite set of
\* strings; this is the empty one.
EmptyMap == [k \in {} |-> <<>>]

\* m[k] = v
MapPut(m, k, v) == [x \in DOMAIN m \cup {k} |-> IF x = k THEN v ELSE m[x]]

\* for (pair : from) into[pair.first] = pair.second;
MapMerge(into, from) ==
  [x \in DOMAIN into \cup DOMAIN from |-> IF x \in DOMAIN from THEN from[x] ELSE into[x]]

(***************************************************************************)
(* hashString: std::hash<std::string>, printed in hexadecimal.             *)
(*                                                                         *)
(* The C++ standard leaves the function computed by std::hash to the       *)
(* implementation. It is a deterministic function of the bytes into the    *)
(* 64 bits of a size_t. The model computes the 64-bit multiplicative hash  *)
(* h := h * 131 + byte (mod 2^64) over the bytes in order, that is the sum *)
(* of byte[i] * 131^(n - i) (mod 2^64). A 64-bit value is held as four     *)
(* 16-bit limbs, least significant first.                                  *)
(***************************************************************************)

\* x + y (mod 2^64)
Add64(x, y) ==
  LET s1 == x[1] + y[1]
      s2 == x[2] + y[2] + (s1 \div 65536)
      s3 == x[3] + y[3] + (s2 \div 65536)
      s4 == x[4] + y[4] + (s3 \div 65536)
  IN  << s1 % 65536, s2 % 65536, s3 % 65536, s4 % 65536 >>

\* x * c (mod 2^64), for 0 <= c <= 256
MulSmall(x, c) ==
  LET t1 == x[1] * c
      t2 == x[2] * c + (t1 \div 65536)
      t3 == x[3] * c + (t2 \div 65536)
      t4 == x[4] * c + (t3 \div 65536)
  IN  << t1 % 65536, t2 % 65536, t3 % 65536, t4 % 65536 >>

\* x * 256^j (mod 2^64), for j in 0..7
ShiftBytes(x, j) ==
  LET limbs == [i \in 1..4 |-> IF i > j \div 2 THEN x[i - (j \div 2)] ELSE 0]
  IN  IF j % 2 = 0 THEN limbs ELSE MulSmall(limbs, 256)

\* The eight bytes of y, least significant first.
Bytes64(y) ==
  [j \in 0..7 |-> IF j % 2 = 0 THEN y[(j \div 2) + 1] % 256 ELSE y[(j \div 2) + 1] \div 256]

\* x * y (mod 2^64)
Mul64(x, y) ==
  LET b == Bytes64(y)
      term(j) == ShiftBytes(MulSmall(x, b[j]), j)
  IN  Add64(Add64(Add64(term(0), term(1)), Add64(term(2), term(3))),
            Add64(Add64(term(4), term(5)), Add64(term(6), term(7))))

\* From the powers 131^0 .. 131^(m-1), the powers 131^0 .. 131^(2m-1).
DoublePowers(p) ==
  LET m == Len(p)
      pm == MulSmall(p[m], 131)
  IN  p \o [i \in 1..m |-> Mul64(p[i], pm)]

\* Pow131[k + 1] = 131^k (mod 2^64), for k in 0..127: no text of the model
\* is longer than 128 bytes.
Pow131to1 == DoublePowers(<< <<1, 0, 0, 0>> >>)
Pow131to3 == DoublePowers(Pow131to1)
Pow131to7 == DoublePowers(Pow131to3)
Pow131to15 == DoublePowers(Pow131to7)
Pow131to31 == DoublePowers(Pow131to15)
Pow131to63 == DoublePowers(Pow131to31)
Pow131 == DoublePowers(Pow131to63)

\* The sum of content[i] * 131^(n - i) for i in lo..hi (mod 2^64).
RECURSIVE HashRange(_, _, _)
HashRange(content, lo, hi) ==
  IF lo > hi THEN <<0, 0, 0, 0>>
  ELSE IF lo = hi
    THEN MulSmall(Pow131[Len(content) - lo + 1], CharCode[content[lo]])
    ELSE LET mid == (lo + hi) \div 2
         IN  Add64(HashRange(content, lo, mid), HashRange(content, mid + 1, hi))

\* hasher(content)
Hasher(content) == HashRange(content, 1, Len(content))

HexDigit(d) == Printable[IF d < 10 THEN 17 + d ELSE 56 + d]

\* The sixteen hexadecimal digits of a 64-bit value, most significant first.
HexDigits(h) ==
  [i \in 1..16 |->
     LET limb  == h[4 - ((i - 1) \div 4)]
         shift == 3 - ((i - 1) % 4)
     IN  HexDigit((limb \div (16 ^ shift)) % 16)]

\* ss << std::hex << hashVal : no leading zeros, "0" for zero.
ToHex(h) ==
  LET digits == HexDigits(h)
      nonzero == {i \in 1..16 : digits[i] # "0"}
  IN  IF nonzero = {} THEN <<"0">> ELSE SubSeq(digits, Nth(nonzero, 1), 16)

\* A hash of the first byte alone (what hashString is not): texts that
\* start alike get one key.
hashFirstByte(content) ==
  IF content = <<>> THEN <<"0">> ELSE ToHex(<< CharCode[content[1]], 0, 0, 0 >>)

\* A hash that keeps the last byte alone (what hashString is not: the loop
\* with hashVal = c in place of hashVal * 131 + c): texts that end alike
\* get one key.
hashLastByte(content) ==
  IF content = <<>> THEN <<"0">>
  ELSE ToHex(<< CharCode[content[Len(content)]], 0, 0, 0 >>)

hashString(content) == ToHex(Hasher(content))

(***************************************************************************)
(* The repository and the working tree.                                    *)
(***************************************************************************)

\* The paths given to add: two plain names, one that holds a space, a
\* directory and a path at which nothing exists.
FileNames == { <<"a">>, <<"b">>, <<"a", " ", "b">>, <<"d">>, <<"g">> }

\* The file the user edits between commands, and the contents it takes.
Edited == { <<"a">> }
Contents == { <<"1">>, <<"2">> }

\* The messages given to commit -m. A message holds no line feed (spec.md
\* section 3: no structural delimiter of the commit layout).
Messages == { <<"m">> }

\* The most commit objects the model creates.
MaxCommits == 2

NoFile == [kind |-> "none", data |-> <<>>]
Dir == [kind |-> "dir", data |-> <<>>]
RegularFile(content) == [kind |-> "file", data |-> content]

VARIABLES
  gitDir,    \* GIT_DIR exists (with OBJECTS_DIR, HEAD_FILE and INDEX_FILE)
  objects,   \* OBJECTS_DIR: file name (a hash) |-> the bytes of the file
  HEAD,      \* the bytes of HEAD_FILE
  index,     \* the bytes of INDEX_FILE
  work,      \* the working directory: path |-> NoFile, Dir or RegularFile
  last,      \* what the last command that wrote a file did and reported
  added,     \* file name |-> the hash of what the file held when add last
             \* staged it in a call that ended well
  pc,        \* "idle", or the write a running commit makes next
  pending,   \* the commit object a running commit has built
  procs      \* two minigit processes run at once: where each is in its
             \* command, with the variables of the command

vars == << gitDir, objects, HEAD, index, work, last, added, pc, pending, procs >>
disk == << gitDir, objects, HEAD, index >>

(***************************************************************************)
(* The index file and the commit objects.                                  *)
(***************************************************************************)

\* while (getline(file, line)) { if (ss >> filename >> hash) staged[filename] = hash; }
RECURSIVE ParseIndex(_, _, _)
ParseIndex(lines, i, stagedFiles) ==
  IF i > Len(lines) THEN stagedFiles
  ELSE LET w == Words(lines[i])
       IN  ParseIndex(lines, i + 1,
                      IF Len(w) >= 2 THEN MapPut(stagedFiles, w[1], w[2])
                      ELSE stagedFiles)

\* getStagingArea() of an index file with the bytes text (an absent file
\* reads as no bytes).
getStagingArea(text) == ParseIndex(Lines(text), 1, EmptyMap)

\* for (pair : map) file << prefix << pair.first << " " << pair.second << "\n";
RECURSIVE WriteEntries(_, _, _, _)
WriteEntries(prefix, map, keys, i) ==
  IF i > Len(keys) THEN <<>>
  ELSE prefix \o keys[i] \o <<" ">> \o map[keys[i]] \o <<"\n">>
       \o WriteEntries(prefix, map, keys, i + 1)

\* The bytes setStagingArea(stagedFiles) leaves in the index file.
setStagingArea(stagedFiles) ==
  WriteEntries(<<>>, stagedFiles, SortedKeys(DOMAIN stagedFiles), 1)

ParentTag == << "p", "a", "r", "e", "n", "t", ":", " " >>
MessageTag == << "m", "e", "s", "s", "a", "g", "e", ":", " " >>
FileTag == << "f", "i", "l", "e", ":", " " >>

\* A commit object whose parent line is left empty (what CommitString is
\* not): the commit does not point at the one before it.
CommitStringNoParent(parentCommit, message, commitFiles) ==
  ParentTag \o <<"\n">>
  \o MessageTag \o message \o <<"\n">>
  \o WriteEntries(FileTag, commitFiles, SortedKeys(DOMAIN commitFiles), 1)

\* A commit object without the line feed after the message (what
\* CommitString is not): the first file line runs into the message line.
CommitStringNoBreak(parentCommit, message, commitFiles) ==
  ParentTag \o parentCommit \o <<"\n">>
  \o MessageTag \o message
  \o WriteEntries(FileTag, commitFiles, SortedKeys(DOMAIN commitFiles), 1)

\* The commit object commit() builds in commitContent.
CommitString(parentCommit, message, commitFiles) ==
  ParentTag \o parentCommit \o <<"\n">>
  \o MessageTag \o message \o <<"\n">>
  \o WriteEntries(FileTag, commitFiles, SortedKeys(DOMAIN commitFiles), 1)

\* The loop of getCommitFiles over the lines of a commit object.
RECURSIVE ParseFiles(_, _, _)
ParseFiles(lines, i, files) ==
  IF i > Len(lines) THEN files
  ELSE LET w == IF StartsWith(lines[i], FileTag)
                THEN Words(Substr(lines[i], Len(FileTag))) ELSE <<>>
       IN  ParseFiles(lines, i + 1,
                      IF Len(w) >= 2 THEN MapPut(files, w[1], w[2]) ELSE files)

\* getCommitFiles(commitHash) where the object exists and can be read.
getCommitFiles(commitHash) ==
  IF commitHash = <<>> THEN EmptyMap
  ELSE ParseFiles(Lines(objects[commitHash]), 1, EmptyMap)

\* The call getCommitFiles(commitHash) as a whole: the exception it throws
\* ("": none) and the map it returns. The one check it makes is that the
\* object file exists.
getCommitFilesCall(commitHash) ==
  IF commitHash = <<>> THEN [error |-> "", files |-> EmptyMap]
  ELSE IF commitHash \notin DOMAIN objects
    THEN [error |-> "Cannot find commit object", files |-> EmptyMap]
  ELSE [error |-> "", files |-> getCommitFiles(commitHash)]

\* The loop of log over the lines of a commit object: the last "parent: "
\* line and the last "message: " line win.
RECURSIVE ParseCommit(_, _, _)
ParseCommit(lines, i, c) ==
  IF i > Len(lines) THEN c
  ELSE ParseCommit(lines, i + 1,
         IF StartsWith(lines[i], ParentTag)
           THEN [c EXCEPT !.parentHash = Substr(lines[i], Len(ParentTag))]
         ELSE IF StartsWith(lines[i], MessageTag)
           THEN [c EXCEPT !.message = Substr(lines[i], Len(MessageTag))]
         ELSE c)

ReadCommit(text) == ParseCommit(Lines(text), 1, [parentHash |-> <<>>, message |-> <<>>])

(***************************************************************************)
(* What a command that wrote a file did and reported: exit is the exit     *)
(* code main() returns, wrote the set of object files the command opened   *)
(* for writing. A command that writes no file leaves every variable as it  *)
(* is.                                                                     *)
(***************************************************************************)
Report(op, report, exit, wrote) ==
  [op |-> op, report |-> report, exit |-> exit, wrote |-> wrote]

\* main(): add, commit and log outside a repository print
\* "Fatal: Not a MiniGit repository" and return 1.
NotARepository(op) ==
  /\ ~gitDir
  /\ UNCHANGED vars

\* repoExists()
repoExists == gitDir

(***************************************************************************)
(* init                                                                    *)
(***************************************************************************)
InitReport ==
  IF repoExists THEN "MiniGit repository already initialized"
  ELSE "Initialized empty MiniGit repository"

\* An init without the check of line 24 (what InitResult is not): it writes
\* HEAD and the index of a repository that is there; create_directory
\* leaves a directory that exists, with its files.
InitResultAgain ==
  [gitDir |-> TRUE, objects |-> objects, HEAD |-> <<>>,
   index |-> setStagingArea(EmptyMap)]

\* The files init leaves: the ones it found where the repository exists,
\* else the two directories, HEAD written by setHEAD("") and the index
\* written by setStagingArea({}).
InitResult ==
  IF repoExists
    THEN [gitDir |-> gitDir, objects |-> objects, HEAD |-> HEAD, index |-> index]
    ELSE [gitDir |-> TRUE, objects |-> EmptyMap, HEAD |-> <<>>,
          index |-> setStagingArea(EmptyMap)]

InitLeaves(r) ==
  /\ gitDir' = r.gitDir
  /\ objects' = r.objects
  /\ HEAD' = r.HEAD
  /\ index' = r.index

init ==
  /\ InitLeaves(InitResult)
  /\ last' = IF repoExists THEN last ELSE Report("init", InitReport, 0, {})
  /\ UNCHANGED << work, added, pc, pending, procs >>

(***************************************************************************)
(* add. readFileContent and writeFileContent throw when the file cannot be *)
(* opened; fault names the call that throws: call "read" or "write" in the *)
(* turn of the loop for filenames[at] (NoFault: none does). An exception   *)
(* leaves add before it saves the index, and main() reports it and         *)
(* returns 1.                                                              *)
(***************************************************************************)

\* A store without the look-up (what StoreBlob is not): it writes the file
\* whether or not the object is there.
StoreBlobAlways(st, hash, content, fault) ==
  IF fault = "write" THEN [st EXCEPT !.error = "Could not write to file"]
  ELSE [st EXCEPT !.objects = MapPut(@, hash, content),
                  !.wrote = @ \cup {hash},
                  !.writes = @ + 1]

\* if (!fs::exists(objectPath)) writeFileContent(objectPath, content);
StoreBlob(st, hash, content, fault) ==
  IF hash \in DOMAIN st.objects THEN st
  ELSE IF fault = "write" THEN [st EXCEPT !.error = "Could not write to file"]
  ELSE [st EXCEPT !.objects = MapPut(@, hash, content),
                  !.wrote = @ \cup {hash},
                  !.writes = @ + 1]

\* stagedFiles[filename] = hash, unless the store threw.
StageFile(st, filename, hash) ==
  IF st.error # "" THEN st
  ELSE [st EXCEPT !.stagedFiles = MapPut(@, filename, hash),
                  !.named = MapPut(@, filename, hash)]

\* The turn of the loop for a regular file, from its content and hash on.
AddContent(st, filename, content, hash, fault) ==
  StageFile(StoreBlob(st, hash, content, fault), filename, hash)

NoFault == [at |-> 0, call |-> "none"]
AddFaults(filenames) ==
  {NoFault}
  \cup [at : {i \in 1..Len(filenames) : work[filenames[i]].kind = "file"},
        call : {"read", "write"}]

\* One turn of the loop of add, for filename; fault is the call that throws
\* in this turn ("none": none does).
AddOne(st, filename, fault) ==
  IF work[filename].kind = "none" THEN [st EXCEPT !.skipped = @ \cup {filename}]
  ELSE IF work[filename].kind = "dir" THEN [st EXCEPT !.skipped = @ \cup {filename}]
  ELSE IF fault = "read" THEN [st EXCEPT !.error = "Could not open file"]
  ELSE AddContent(st, filename, work[filename].data,
                  hashString(work[filename].data), fault)

RECURSIVE AddLoop(_, _, _, _)
AddLoop(st, filenames, i, fault) ==
  IF i > Len(filenames) \/ st.error # "" THEN st
  ELSE AddLoop(AddOne(st, filenames[i], IF fault.at = i THEN fault.call ELSE "none"),
               filenames, i + 1, fault)

\* add(filenames) run in the current state: the store it leaves, the map it
\* holds in stagedFiles, the files it named as staged (with their hashes)
\* and as skipped, the object files it wrote and the number of its calls of
\* writeFileContent, and the exception that ended it ("": none).
AddResult(filenames, fault) ==
  AddLoop([objects |-> objects,
           stagedFiles |-> getStagingArea(index),
           named |-> EmptyMap, skipped |-> {}, wrote |-> {}, writes |-> 0,
           error |-> ""],
          filenames, 1, fault)

\* The index file as add leaves it: saved by setStagingArea after the loop,
\* which an exception does not reach.
AddIndex(st) == IF st.error = "" THEN setStagingArea(st.stagedFiles) ELSE index

\* What add leaves on disk: the objects it wrote and, unless an exception
\* ended it, the index saved by setStagingArea.
AddEnds(st) ==
  /\ objects' = st.objects
  /\ index' = AddIndex(st)
  /\ IF st.error = ""
       THEN /\ added' = MapMerge(added, st.named)
            /\ last' = Report("add", "Staged", 0, st.wrote)
       ELSE /\ UNCHANGED added
            /\ last' = IF st.wrote = {} THEN last
                       ELSE Report("add", st.error, 1, st.wrote)

add(filenames, fault) ==
  /\ repoExists
  /\ AddEnds(AddResult(filenames, fault))
  /\ UNCHANGED << gitDir, HEAD, work, pc, pending, procs >>

(***************************************************************************)
(* commit. The calls that throw are, in order: readFileContent(HEAD_FILE)  *)
(* in getHEAD, the look-up and the read of the parent's object in          *)
(* getCommitFiles, writeFileContent of the commit object, and              *)
(* writeFileContent(HEAD_FILE) in setHEAD. fault names the one that cannot *)
(* open its file. setStagingArea does not look at its stream and is taken  *)
(* to write.                                                               *)
(***************************************************************************)
\* The objects of the store that are commit objects.
CommitIds == {h \in DOMAIN objects : StartsWith(objects[h], ParentTag)}

\* The commits the repository knows of: the stored ones, and the ones HEAD
\* or the parent line of a stored commit names.
KnownCommits ==
  (CommitIds \cup {HEAD} \cup {ReadCommit(objects[c]).parentHash : c \in CommitIds})
  \ { <<>> }

CommitFaults == {"none", "read HEAD", "read parent", "write object", "write HEAD"}

\* A commit without the check of line 87 (what NothingToCommit is not).
NeverNothingToCommit(stagedFiles) == FALSE

\* if (stagedFiles.empty())
NothingToCommit(stagedFiles) == stagedFiles = EmptyMap

\* The merge the other way round (what CommitFiles is not): the parent's
\* entry wins over the staged one.
CommitFilesParentWins(parentCommit, stagedFiles) ==
  MapMerge(stagedFiles, getCommitFiles(parentCommit))

\* The commit map of steps 3 and 4: the parent's files, then the staged ones.
CommitFiles(parentCommit, stagedFiles) ==
  MapMerge(getCommitFiles(parentCommit), stagedFiles)

\* A commit that ends before it has built its object.
PlanEnds(report, exit) == [report |-> report, exit |-> exit, commitString |-> <<>>]

\* Steps 1 to 5 of commit: the checks and the text of the commit object.
CommitPlan(message, fault) ==
  LET stagedFiles == getStagingArea(index)
      parentCommit == HEAD
  IN  IF NothingToCommit(stagedFiles) THEN PlanEnds("Nothing to commit", 0)
      ELSE IF fault = "read HEAD" THEN PlanEnds("Could not open file", 1)
      ELSE IF parentCommit # <<>> /\ parentCommit \notin DOMAIN objects
        THEN PlanEnds("Cannot find commit object", 1)
      ELSE IF parentCommit # <<>> /\ fault = "read parent"
        THEN PlanEnds("Could not open file", 1)
      ELSE [report |-> "", exit |-> 0,
            commitString |-> CommitString(parentCommit, message,
                                          CommitFiles(parentCommit, stagedFiles))]

\* Orders commit does not write in: HEAD before the object, the index
\* before the object, and no clearing of the index.
CommitOrderHeadFirst == << "write HEAD", "write object", "clear index" >>
CommitOrderIndexFirst == << "clear index", "write object", "write HEAD" >>
CommitOrderKeepsIndex == << "write object", "write HEAD" >>

\* The writes of steps 7 to 9, in the order commit makes them, and the ones
\* made by writeFileContent, which throws when it cannot open the file.
CommitOrder == << "write object", "write HEAD", "clear index" >>
CommitThrows == { "write object", "write HEAD" }

\* The files of the repository as a commit has them, with the object files
\* it has written.
OnDisk == [objects |-> objects, HEAD |-> HEAD, index |-> index, wrote |-> {}]

\* One of the writes of commit.
CommitStepDo(step, d, commitHash, commitString) ==
  IF step = "write object"
    THEN [d EXCEPT !.objects = MapPut(@, commitHash, commitString),
                   !.wrote = @ \cup {commitHash}]
  ELSE IF step = "write HEAD" THEN [d EXCEPT !.HEAD = commitHash]
  ELSE [d EXCEPT !.index = setStagingArea(EmptyMap)]

\* What a commit reports with the files it leaves.
Outcome(d, report, exit) ==
  [report |-> report, exit |-> exit, wrote |-> d.wrote,
   objects |-> d.objects, HEAD |-> d.HEAD, index |-> d.index]

\* The writes from the k-th on; the one named by fault throws.
RECURSIVE CommitSteps(_, _, _, _, _)
CommitSteps(d, k, commitHash, commitString, fault) ==
  IF k > Len(CommitOrder) THEN Outcome(d, "Committed", 0)
  ELSE IF fault = CommitOrder[k] /\ fault \in CommitThrows
    THEN Outcome(d, "Could not write to file", 1)
  ELSE CommitSteps(CommitStepDo(CommitOrder[k], d, commitHash, commitString),
                   k + 1, commitHash, commitString, fault)

\* Steps 7 to 9 of commit: the object, then HEAD, then the index.
CommitWrites(commitHash, commitString, fault) ==
  CommitSteps(OnDisk, 1, commitHash, commitString, fault)

\* Steps 6 to 9 of commit: the hash of the object, then the writes.
CommitObject(commitString, fault) ==
  CommitWrites(hashString(commitString), commitString, fault)

CommitFinish(plan, fault) ==
  IF plan.report # "" THEN Outcome(OnDisk, plan.report, plan.exit)
  ELSE CommitObject(plan.commitString, fault)

\* commit(message) run in the current state: what it reports, the object
\* files it wrote, and the store, HEAD and index it leaves.
CommitResult(message, fault) == CommitFinish(CommitPlan(message, fault), fault)

\* What commit leaves on disk.
CommitLeaves(r) ==
  /\ r.wrote \subseteq CommitIds \/ Cardinality(KnownCommits) < MaxCommits
  /\ objects' = r.objects
  /\ HEAD' = r.HEAD
  /\ index' = r.index
  /\ last' = IF r.wrote = {} THEN last
             ELSE Report("commit", r.report, r.exit, r.wrote)

commit(message, fault) ==
  /\ repoExists
  /\ CommitLeaves(CommitResult(message, fault))
  /\ UNCHANGED << gitDir, work, added, pc, pending, procs >>

(***************************************************************************)
(* commit, one write at a time: CommitStart runs steps 1 to 6, and each    *)
(* CommitStep makes the next write of CommitOrder, or has it throw. No     *)
(* other command runs before the commit has ended.                         *)
(***************************************************************************)
NoPending == [commitHash |-> <<>>, commitString |-> <<>>, wrote |-> {}]

CommitPends(commitHash, commitString) ==
  /\ commitHash \in CommitIds \/ Cardinality(KnownCommits) < MaxCommits
  /\ pc' = CommitOrder[1]
  /\ pending' = [commitHash |-> commitHash, commitString |-> commitString,
                 wrote |-> {}]
  /\ UNCHANGED << disk, work, last, added, procs >>

CommitStarts(plan) ==
  IF plan.report # "" THEN UNCHANGED vars
  ELSE CommitPends(hashString(plan.commitString), plan.commitString)

CommitStart(message, fault) ==
  /\ pc = "idle"
  /\ repoExists
  /\ CommitStarts(CommitPlan(message, fault))

\* The write after pc, "idle" after the last one.
NextWrite ==
  LET k == CHOOSE i \in 1..Len(CommitOrder) : CommitOrder[i] = pc
  IN  IF k < Len(CommitOrder) THEN CommitOrder[k + 1] ELSE "idle"

CommitStepLeaves(d, next) ==
  /\ objects' = d.objects
  /\ HEAD' = d.HEAD
  /\ index' = d.index
  /\ pc' = next
  /\ IF next = "idle"
       THEN /\ pending' = NoPending
            /\ last' = Report("commit", "Committed", 0, d.wrote)
       ELSE /\ pending' = [pending EXCEPT !.wrote = d.wrote]
            /\ UNCHANGED last

CommitStep(throws) ==
  /\ pc # "idle"
  /\ UNCHANGED << gitDir, work, added, procs >>
  /\ IF throws
       THEN /\ pc \in CommitThrows
            /\ pc' = "idle"
            /\ pending' = NoPending
            /\ last' = IF pending.wrote = {} THEN last
                       ELSE Report("commit", "Could not write to file", 1,
                                   pending.wrote)
            /\ UNCHANGED << objects, HEAD, index >>
       ELSE CommitStepLeaves(
              CommitStepDo(pc, [OnDisk EXCEPT !.wrote = pending.wrote],
                           pending.commitHash, pending.commitString),
              NextWrite)

(***************************************************************************)
(* log                                                                     *)
(***************************************************************************)

\* A loop that prints the oldest commit first (what LogLoop is not): each
\* entry goes before the ones already printed.
RECURSIVE LogLoopOldestFirst(_, _, _, _)
LogLoopOldestFirst(store, currentCommitHash, out, turns) ==
  IF currentCommitHash = <<>> THEN [out |-> out, report |-> "end of history"]
  ELSE IF currentCommitHash \notin DOMAIN store
    THEN [out |-> out, report |-> "Fatal: Missing commit object"]
  ELSE IF turns = 0 THEN [out |-> out, report |-> "does not end"]
  ELSE LET c == ReadCommit(store[currentCommitHash])
       IN  LogLoopOldestFirst(store, c.parentHash,
             << [commit |-> currentCommitHash, message |-> c.message] >> \o out,
             turns - 1)

\* A loop without the check of line 154 (what LogLoop is not): a hash that
\* names no object ends the walk as the empty hash does.
RECURSIVE LogLoopToLastObject(_, _, _, _)
LogLoopToLastObject(store, currentCommitHash, out, turns) ==
  IF currentCommitHash = <<>> \/ currentCommitHash \notin DOMAIN store
    THEN [out |-> out, report |-> "end of history"]
  ELSE IF turns = 0 THEN [out |-> out, report |-> "does not end"]
  ELSE LET c == ReadCommit(store[currentCommitHash])
       IN  LogLoopToLastObject(store, c.parentHash,
             Append(out, [commit |-> currentCommitHash, message |-> c.message]),
             turns - 1)

\* The while loop of log from currentCommitHash over the object files of
\* store; turns counts the turns the loop may still take in the model (a
\* chain longer than the store has objects is a cycle, on which the code
\* does not end).
RECURSIVE LogLoop(_, _, _, _)
LogLoop(store, currentCommitHash, out, turns) ==
  IF currentCommitHash = <<>> THEN [out |-> out, report |-> "end of history"]
  ELSE IF currentCommitHash \notin DOMAIN store
    THEN [out |-> out, report |-> "Fatal: Missing commit object"]
  ELSE IF turns = 0 THEN [out |-> out, report |-> "does not end"]
  ELSE LET c == ReadCommit(store[currentCommitHash])
       IN  LogLoop(store, c.parentHash,
                   Append(out, [commit |-> currentCommitHash, message |-> c.message]),
                   turns - 1)

\* What log prints where the object files are store and HEAD holds head: the
\* commits in the order printed, and how the loop ends.
LogOf(store, head) ==
  IF head = <<>> THEN [out |-> <<>>, report |-> "No commits yet"]
  ELSE LogLoop(store, head, <<>>, Cardinality(DOMAIN store))

\* What log prints in the current state (log changes no file, so this is a
\* function of the state).
LogOutput == LogOf(objects, HEAD)

log ==
  /\ repoExists
  /\ UNCHANGED vars

(***************************************************************************)
(* Two minigit processes in one repository. Nothing in the code locks the  *)
(* repository, so the file reads and writes of two commands interleave:    *)
(* each step below is one access to the files (with the work between two   *)
(* accesses), taken by either process. raced records that a process took a *)
(* step while the other was inside a command.                              *)
(***************************************************************************)
Procs == {1, 2}

\* The files the two processes add.
RaceFiles == { <<"a">>, <<"b">> }

Idle == [pc |-> "idle", filename |-> <<>>, stagedFiles |-> EmptyMap,
         commitString |-> <<>>]
NoProcs == [run |-> [p \in Procs |-> Idle], raced |-> FALSE]

Overlaps(p) == \E q \in Procs \ {p} : procs.run[q].pc # "idle"

\* Process p goes on with the variables local.
Moves(p, local) ==
  procs' = [run |-> [procs.run EXCEPT ![p] = local],
            raced |-> procs.raced \/ Overlaps(p)]

\* A load that reads nothing (what LoadIndex is not): the command starts
\* from an empty map.
LoadIndexEmpty == EmptyMap

\* stagedFiles = getStagingArea(), the first statement of add and of commit.
LoadIndex == getStagingArea(index)

\* add filename, line 44: the index is loaded.
AddLoad(p, filename) ==
  /\ repoExists
  /\ procs.run[p].pc = "idle"
  /\ Moves(p, [Idle EXCEPT !.pc = "add file", !.filename = filename,
                           !.stagedFiles = LoadIndex])
  /\ UNCHANGED << disk, work, last, added, pc, pending >>

AddTurnLeaves(p, st) ==
  /\ objects' = st.objects
  /\ Moves(p, [procs.run[p] EXCEPT !.pc = "add save", !.stagedFiles = st.stagedFiles])

\* The turn of the loop of add for the file: lines 46 to 77.
AddTurn(p) ==
  /\ procs.run[p].pc = "add file"
  /\ AddTurnLeaves(p, AddOne([objects |-> objects,
                              stagedFiles |-> procs.run[p].stagedFiles,
                              named |-> EmptyMap, skipped |-> {}, wrote |-> {},
                              writes |-> 0, error |-> ""],
                             procs.run[p].filename, "none"))
  /\ UNCHANGED << gitDir, HEAD, index, work, last, added, pc, pending >>

\* Line 80: the index is saved, and add has ended well.
AddSave(p) ==
  /\ procs.run[p].pc = "add save"
  /\ index' = setStagingArea(procs.run[p].stagedFiles)
  /\ added' = MapPut(added, procs.run[p].filename,
                     procs.run[p].stagedFiles[procs.run[p].filename])
  /\ Moves(p, Idle)
  /\ UNCHANGED << gitDir, objects, HEAD, work, last, pc, pending >>

\* commit, lines 85 to 90: the index is loaded; an empty one ends the
\* command.
CommitLoad(p) ==
  /\ repoExists
  /\ procs.run[p].pc = "idle"
  /\ IF NothingToCommit(LoadIndex) THEN UNCHANGED procs
     ELSE Moves(p, [Idle EXCEPT !.pc = "commit build", !.stagedFiles = LoadIndex])
  /\ UNCHANGED << disk, work, last, added, pc, pending >>

CommitBuilt(p, commitString) ==
  /\ hashString(commitString) \in CommitIds \/ Cardinality(KnownCommits) < MaxCommits
  /\ Moves(p, [procs.run[p] EXCEPT !.pc = CommitOrder[1],
                                   !.commitString = commitString])

\* commit, lines 94 to 126: HEAD and the parent's object are read and the
\* commit object is built; a parent that is not there ends the command.
CommitBuild(p, message) ==
  /\ procs.run[p].pc = "commit build"
  /\ IF HEAD # <<>> /\ HEAD \notin DOMAIN objects THEN Moves(p, Idle)
     ELSE CommitBuilt(p, CommitString(HEAD, message,
                                      CommitFiles(HEAD, procs.run[p].stagedFiles)))
  /\ UNCHANGED << disk, work, last, added, pc, pending >>

\* The write after step in CommitOrder, "idle" after the last one.
WriteAfter(step) ==
  LET k == CHOOSE i \in 1..Len(CommitOrder) : CommitOrder[i] = step
  IN  IF k < Len(CommitOrder) THEN CommitOrder[k + 1] ELSE "idle"

CommitWriteLeaves(p, d, next) ==
  /\ objects' = d.objects
  /\ HEAD' = d.HEAD
  /\ index' = d.index
  /\ Moves(p, IF next = "idle" THEN Idle ELSE [procs.run[p] EXCEPT !.pc = next])

\* commit, lines 129, 134 and 137: the next of its three writes.
CommitWrite(p) ==
  /\ \E k \in 1..Len(CommitOrder) : CommitOrder[k] = procs.run[p].pc
  /\ CommitWriteLeaves(p,
       CommitStepDo(procs.run[p].pc, OnDisk,
                    hashString(procs.run[p].commitString),
                    procs.run[p].commitString),
       WriteAfter(procs.run[p].pc))
  /\ UNCHANGED << gitDir, work, last, added, pc, pending >>

(***************************************************************************)
(* The user's edits of the working directory between commands.             *)
(***************************************************************************)
WriteFile(filename, content) ==
  /\ work[filename].kind = "file"
  /\ work[filename] # RegularFile(content)
  /\ work' = [work EXCEPT ![filename] = RegularFile(content)]
  /\ UNCHANGED << disk, last, added, pc, pending, procs >>

RemoveFile(filename) ==
  /\ work[filename].kind = "file"
  /\ work' = [work EXCEPT ![filename] = NoFile]
  /\ UNCHANGED << disk, last, added, pc, pending, procs >>

(***************************************************************************)
(* The specification of the commands run one after the other.              *)
(***************************************************************************)
\* The working directory the commands start in.
WorkingDirectory ==
  [f \in FileNames |->
     IF f = <<"a">> THEN RegularFile(<<"1">>)
     ELSE IF f = <<"b">> THEN RegularFile(<<"1">>)
     ELSE IF f = <<"a", " ", "b">> THEN RegularFile(<<"1">>)
     ELSE IF f = <<"d">> THEN Dir
     ELSE NoFile]

\* The argument lists given to add.
Batches ==
  { <<f>> : f \in FileNames }
  \cup { << <<"a">>, <<"b">> >>, << <<"g">>, <<"b">> >>, << <<"d">>, <<"a">> >> }

Init ==
  /\ gitDir = FALSE
  /\ objects = EmptyMap
  /\ HEAD = <<>>
  /\ index = <<>>
  /\ work = WorkingDirectory
  /\ last = Report("none", "", 0, {})
  /\ added = EmptyMap
  /\ pc = "idle"
  /\ pending = NoPending
  /\ procs = NoProcs

RunInit == pc = "idle" /\ init
RunAdd ==
  /\ pc = "idle"
  /\ \E filenames \in Batches : \E fault \in AddFaults(filenames) : add(filenames, fault)
RunCommit ==
  /\ pc = "idle"
  /\ \E message \in Messages, fault \in CommitFaults : commit(message, fault)
RunLog == pc = "idle" /\ log
RunOutside == pc = "idle" /\ \E op \in {"add", "commit", "log"} : NotARepository(op)
Edit ==
  /\ pc = "idle"
  /\ \/ \E f \in Edited, c \in Contents : WriteFile(f, c)
     \/ \E f \in Edited : RemoveFile(f)

Next == RunInit \/ RunAdd \/ RunCommit \/ RunLog \/ RunOutside \/ Edit

Spec == Init /\ [][Next]_vars

(***************************************************************************)
(* The same commands, with commit run one write at a time.                 *)
(***************************************************************************)
RunCommitStart ==
  \E message \in Messages, fault \in {"none", "read HEAD", "read parent"} :
    CommitStart(message, fault)
RunCommitStep == \E throws \in BOOLEAN : CommitStep(throws)

NextSteps ==
  RunInit \/ RunAdd \/ RunCommitStart \/ RunCommitStep \/ RunLog \/ RunOutside \/ Edit

SpecSteps == Init /\ [][NextSteps]_vars

(***************************************************************************)
(* The commands in a repository whose files the user may remove: the       *)
(* file of a commit is lost, which is how getCommitFiles and log come to    *)
(* miss an object.                                                         *)
(***************************************************************************)
RemoveObject ==
  /\ pc = "idle"
  /\ \E lost \in CommitIds :
       objects' = [h \in DOMAIN objects \ {lost} |-> objects[h]]
  /\ UNCHANGED << gitDir, HEAD, index, work, last, added, pc, pending, procs >>

NextLoss == Next \/ RemoveObject

SpecLoss == Init /\ [][NextLoss]_vars

(***************************************************************************)
(* The specification of two processes that run add and commit at once in   *)
(* a repository that init has created.                                     *)
(***************************************************************************)
RaceInit ==
  /\ \A p \in Procs : procs.run[p].pc = "idle"
  /\ init
RaceAddLoad == \E p \in Procs, filename \in RaceFiles : AddLoad(p, filename)
RaceAddTurn == \E p \in Procs : AddTurn(p)
RaceAddSave == \E p \in Procs : AddSave(p)
RaceCommitLoad == \E p \in Procs : CommitLoad(p)
RaceCommitBuild == \E p \in Procs, message \in Messages : CommitBuild(p, message)
RaceCommitWrite == \E p \in Procs : CommitWrite(p)

NextRace ==
  \/ RaceInit
  \/ RaceAddLoad \/ RaceAddTurn \/ RaceAddSave
  \/ RaceCommitLoad \/ RaceCommitBuild \/ RaceCommitWrite

SpecRace == Init /\ [][NextRace]_vars

(***************************************************************************)
(* The properties.                                                         *)
(***************************************************************************)
\* The commit the last command created and set HEAD to.
Committed == last.op = "commit" /\ last.report = "Committed"

\* C1. No dangling references: in every state reachable through init, add
\* and commit, whatever the file names and contents, a non-empty HEAD names
\* an object of the store, the non-empty parent of every stored commit
\* names an object of the store, and so does every hash that is a value of
\* the snapshot of a stored commit.
NoDanglingReferences ==
  /\ HEAD # <<>> => HEAD \in DOMAIN objects
  /\ \A c \in CommitIds :
       /\ ReadCommit(objects[c]).parentHash # <<>>
            => ReadCommit(objects[c]).parentHash \in DOMAIN objects
       /\ \A f \in DOMAIN getCommitFiles(c) :
            getCommitFiles(c)[f] \in DOMAIN objects

\* C2. Snapshots are complete and cumulative: the snapshot of a commit has
\* an entry for every file name that add staged, in a call that ended
\* well, at any time before the commit was created, the files staged only
\* for earlier commits included.
SnapshotsComplete ==
  Committed => DOMAIN added \subseteq DOMAIN getCommitFiles(HEAD)

\* C10. The snapshot of a commit maps every file staged before it to the
\* hash of what the file held when add last staged it, whatever has
\* happened to the working file since.
SnapshotAtAddTime ==
  Committed =>
    \A f \in DOMAIN added :
      /\ f \in DOMAIN getCommitFiles(HEAD)
      /\ getCommitFiles(HEAD)[f] = added[f]

Hash1 == hashString(<<"1">>)
Hash2 == hashString(<<"2">>)

\* The parent of the commit HEAD names.
HeadParent == ReadCommit(objects[HEAD]).parentHash

\* C3. Merge result of commit: the snapshot of a newly created commit is the
\* snapshot of the parent (the empty map when HEAD was empty) with every
\* entry of the staging index put in, over the parent's entry of the same
\* file name.
MergesStagedIntoParent(r) ==
  r.report = "Committed" =>
    ParseFiles(Lines(r.objects[r.HEAD]), 1, EmptyMap)
      = MapMerge(getCommitFiles(HEAD), getStagingArea(index))

MergeResult ==
  repoExists =>
    \A message \in Messages : MergesStagedIntoParent(CommitResult(message, "none"))

\* The second of two commits staged a new version of a, which the first
\* held with b: a has the new hash, b the parent's.
MergeResultSeen ==
  /\ Committed
  /\ HeadParent # <<>>
  /\ {<<"a">>, <<"b">>} \subseteq DOMAIN getCommitFiles(HeadParent)
  /\ getCommitFiles(HeadParent)[<<"a">>] = Hash1
  /\ getCommitFiles(HEAD)[<<"a">>] = Hash2
  /\ getCommitFiles(HEAD)[<<"b">>] = getCommitFiles(HeadParent)[<<"b">>]

\* C4. The write order of commit: the object, then HEAD, then the index. At
\* every point of a commit, one at which a write has failed included, a
\* non-empty HEAD names a commit object of the store, and the index is
\* cleared only once HEAD names the new commit.
CommitWriteOrder ==
  /\ HEAD # <<>> => HEAD \in CommitIds
  /\ pc # "idle" =>
       /\ HEAD = pending.commitHash => pending.commitHash \in CommitIds
       /\ getStagingArea(index) = EmptyMap => HEAD = pending.commitHash

\* A commit has written its object and failed to write HEAD, which names
\* the commit before.
CommitFailedAtHEAD ==
  /\ pc = "idle"
  /\ last.op = "commit" /\ last.exit = 1 /\ last.wrote # {}
  /\ HEAD # <<>> /\ HEAD \notin last.wrote
  /\ last.wrote \subseteq CommitIds

\* C5. A commit that fails before HEAD is updated (the parent's object is
\* not found or not read, or the new object is not written) leaves HEAD
\* and the index as they are: the staged entries are still pending.
FailsWithoutEffect(r) ==
  r.exit # 0 => /\ r.HEAD = HEAD
                /\ r.index = index
                /\ getStagingArea(r.index) # EmptyMap

CommitFailureKeepsState ==
  repoExists =>
    \A message \in Messages, fault \in CommitFaults :
      FailsWithoutEffect(CommitResult(message, fault))

\* The object HEAD names is lost and entries are staged: commit fails for
\* the parent it cannot find.
ParentNotFound ==
  /\ repoExists
  /\ HEAD # <<>> /\ HEAD \notin DOMAIN objects
  /\ getStagingArea(index) # EmptyMap
  /\ \A message \in Messages :
       CommitResult(message, "none").report = "Cannot find commit object"

\* C6. The staging index is empty right after init has created a repository
\* and right after every commit that set HEAD.
IndexEmptyAfterInitAndCommit ==
  (last.op = "init" \/ Committed) => index = <<>>

\* A commit of staged files has set HEAD and left the index empty.
IndexClearedByCommit ==
  /\ Committed
  /\ HEAD \in last.wrote
  /\ DOMAIN getCommitFiles(HEAD) # {}
  /\ index = <<>>

\* C7. commit with an empty staging index changes nothing: it leaves HEAD,
\* the index and the objects of the store as they are, and reports no
\* error.
ChangesNothing(r) ==
  /\ r.objects = objects
  /\ r.HEAD = HEAD
  /\ r.index = index
  /\ r.wrote = {}
  /\ r.exit = 0
  /\ r.report = "Nothing to commit"

EmptyCommitChangesNothing ==
  (repoExists /\ getStagingArea(index) = EmptyMap) =>
    \A message \in Messages, fault \in CommitFaults :
      ChangesNothing(CommitResult(message, fault))

\* The index is empty in a repository with a commit, after an add that
\* staged nothing.
EmptyIndexWithHistory ==
  /\ repoExists
  /\ getStagingArea(index) = EmptyMap
  /\ HEAD \in CommitIds
  /\ last.op = "add"

\* C8. The object store is append-only and immutable per key: no init, add,
\* commit or log removes an object or changes the bytes stored under its
\* hash.
StoreAppendOnly ==
  [][\A h \in DOMAIN objects :
       h \in DOMAIN objects' /\ objects'[h] = objects[h]]_vars

\* a was committed, modified, added again and committed: the blob of its
\* first version is still there under its own hash.
FirstVersionKept ==
  /\ Committed
  /\ HeadParent # <<>>
  /\ getCommitFiles(HeadParent) = (<<"a">> :> Hash1)
  /\ getCommitFiles(HEAD) = (<<"a">> :> Hash2)
  /\ Hash1 \in DOMAIN objects /\ objects[Hash1] = <<"1">>
  /\ Hash2 \in DOMAIN objects /\ objects[Hash2] = <<"2">>

\* C9. Deduplication: storing a content that is stored already, through the
\* same file or another file name, yields the hash it has, leaves one
\* object with that content, and writes no object file again.
Deduplicates(st, filenames) ==
  /\ st.writes = Cardinality(DOMAIN st.objects \ DOMAIN objects)
  /\ \A h \in DOMAIN objects : st.objects[h] = objects[h]
  /\ \A i \in 1..Len(filenames) :
       work[filenames[i]].kind = "file" =>
         /\ st.objects[st.named[filenames[i]]] = work[filenames[i]].data
         /\ Cardinality({h \in DOMAIN st.objects :
                           st.objects[h] = work[filenames[i]].data}) = 1

Deduplication ==
  repoExists =>
    \A filenames \in Batches : Deduplicates(AddResult(filenames, NoFault), filenames)

\* a and b hold the same bytes and both are staged, the second by an add
\* that wrote no object: one object holds the content.
SameContentStoredOnce ==
  /\ last.op = "add" /\ last.report = "Staged" /\ last.wrote = {}
  /\ {<<"a">>, <<"b">>} \subseteq DOMAIN added
  /\ added[<<"a">>] = added[<<"b">>]
  /\ Cardinality({h \in DOMAIN objects : objects[h] = <<"1">>}) = 1

\* Saving a map with setStagingArea and loading the file with getStagingArea
\* gives the map back.
RoundTrips(stagedFiles) == getStagingArea(setStagingArea(stagedFiles)) = stagedFiles

\* C11. Staging index round trip: whatever map of file names to hashes add
\* holds in stagedFiles when it saves it, saving it with setStagingArea and
\* loading it with getStagingArea gives a map equal to it; and loading
\* where no index was ever saved gives the empty map.
IndexRoundTrip ==
  IF repoExists
    THEN \A filenames \in Batches : RoundTrips(AddResult(filenames, NoFault).stagedFiles)
    ELSE getStagingArea(index) = EmptyMap

\* The file names of an argument list of add that can be stored: the ones
\* that are regular files and whose read and write do not fail.
CanBeStored(filenames, fault) ==
  {filenames[i] : i \in {k \in 1..Len(filenames) :
                           work[filenames[k]].kind = "file" /\ fault.at # k}}

\* The index that add leaves (loaded) against the one it found (before):
\* every name that can be stored is mapped to the hash of its content, and
\* a name that is no regular file is skipped and has the entry it had.
BatchStaged(loaded, before, st, filenames, fault) ==
  \A i \in 1..Len(filenames) :
    LET f == filenames[i]
    IN  /\ f \in CanBeStored(filenames, fault)
             => f \in DOMAIN loaded /\ loaded[f] = hashString(work[f].data)
        /\ work[f].kind # "file"
             => /\ st.error = "" => f \in st.skipped
                /\ f \in DOMAIN loaded <=> f \in DOMAIN before
                /\ f \in DOMAIN loaded => loaded[f] = before[f]

BatchStagedBy(st, filenames, fault) ==
  BatchStaged(getStagingArea(AddIndex(st)), getStagingArea(index), st, filenames, fault)

\* C12. add takes the file names of a call one by one: a name that does not
\* exist or is a directory is skipped and not staged, and a failure on one
\* name does not end the call, so every other name of the call that can be
\* stored is, in the saved index, mapped to the hash of its content.
BatchIndependent ==
  repoExists =>
    \A filenames \in Batches : \A fault \in AddFaults(filenames) :
      BatchStagedBy(AddResult(filenames, fault), filenames, fault)

\* The same for the calls in which no read and no write fails and no name
\* holds whitespace: these stage every regular file they name.
PlainName(f) == \A i \in 1..Len(f) : ~IsSpace(f[i])
SkipsKeepTheBatch ==
  repoExists =>
    \A filenames \in {b \in Batches : \A i \in 1..Len(b) : PlainName(b[i])} :
      BatchStagedBy(AddResult(filenames, NoFault), filenames, NoFault)

\* With names that hold no whitespace, a failed read or write alone breaks
\* the claim.
PlainBatchIndependent ==
  repoExists =>
    \A filenames \in {b \in Batches : \A i \in 1..Len(b) : PlainName(b[i])} :
      \A fault \in AddFaults(filenames) :
        BatchStagedBy(AddResult(filenames, fault), filenames, fault)

\* The messages the log is checked with: the ones of the commands, and one
\* that holds spaces.
LogMessages == Messages \cup { <<"n", " ", "2">> }

\* The printed commits are the parent chain from HEAD to the root commit,
\* each once.
PrintsChain(l) ==
  /\ l.report = "end of history"
  /\ Len(l.out) >= 1
  /\ l.out[1].commit = HEAD
  /\ \A i \in 1..Len(l.out) :
       /\ l.out[i].commit \in CommitIds
       /\ ReadCommit(objects[l.out[i].commit]).parentHash
            = IF i < Len(l.out) THEN l.out[i + 1].commit ELSE <<>>
       /\ \A j \in 1..Len(l.out) : l.out[i].commit = l.out[j].commit => i = j

\* A commit that ends well puts one entry, with its hash and its message,
\* before the entries log printed so far; any other commit leaves the log.
LogAfterCommit(r, message, l) ==
  LogOf(r.objects, r.HEAD) =
    IF r.report = "Committed"
      THEN [out |-> << [commit |-> r.HEAD, message |-> message] >> \o l.out,
            report |-> "end of history"]
      ELSE l

LogFollows(l) ==
  /\ \A message \in LogMessages, fault \in CommitFaults :
       LogAfterCommit(CommitResult(message, fault), message, l)
  /\ \A filenames \in Batches : \A fault \in AddFaults(filenames) :
       LogOf(AddResult(filenames, fault).objects, HEAD) = l

\* C13. log reports that there are no commits exactly when HEAD is empty;
\* otherwise it prints the commits on the parent chain from HEAD, youngest
\* first, each once and with the message it was committed with. Every
\* commit that ends well adds one entry at the front and no other command
\* changes what log prints, so after N such commits log prints N entries in
\* the reverse of the order of their creation, the root commit last.
LogPrintsHistory ==
  /\ LogOutput.report = "No commits yet" <=> HEAD = <<>>
  /\ HEAD = <<>> => LogOutput.out = <<>>
  /\ HEAD # <<>> => PrintsChain(LogOutput)
  /\ repoExists => LogFollows(LogOutput)

\* log prints two commits, the one HEAD names and then the root commit.
LogPrintsTwo == Len(LogOutput.out) = 2 /\ Committed

\* The walk of log ends at a commit without parent and went through no
\* commit twice.
EndsAtRoot(l) ==
  /\ l.report = "end of history"
  /\ \A i, j \in 1..Len(l.out) : l.out[i].commit = l.out[j].commit => i = j
  /\ l.out # <<>>
  /\ ReadCommit(objects[l.out[Len(l.out)].commit]).parentHash = <<>>

\* C14. The walk through the history ends: in every state reached by init,
\* add and commit the parent chain from HEAD has no cycle and comes, after
\* no more steps than there are commit objects, to a commit whose parent is
\* empty, so log ends.
HistoryTerminates ==
  /\ LogOutput.report # "does not end"
  /\ Len(LogOutput.out) <= Cardinality(CommitIds)
  /\ HEAD # <<>> => EndsAtRoot(LogOutput)

\* HEAD names a commit that has a parent: the walk takes two turns.
WalkOfTwo ==
  /\ HEAD \in CommitIds
  /\ HeadParent \in CommitIds
  /\ LogOutput.report = "end of history"

\* The hash the walk of log comes to after the commits it printed.
NextOnChain(l) ==
  IF l.out = <<>> THEN HEAD
  ELSE ReadCommit(objects[l.out[Len(l.out)].commit]).parentHash

\* The printed commits are stored and are, in order, the parent chain from
\* HEAD.
FollowsChain(l) ==
  \A i \in 1..Len(l.out) :
    /\ l.out[i].commit \in DOMAIN objects
    /\ l.out[i].commit =
         IF i = 1 THEN HEAD ELSE ReadCommit(objects[l.out[i - 1].commit]).parentHash

HaltsAtMissing(l) ==
  /\ FollowsChain(l)
  /\ l.report = "Fatal: Missing commit object"
       <=> NextOnChain(l) # <<>> /\ NextOnChain(l) \notin DOMAIN objects
  /\ l.report \in {"No commits yet", "end of history"} <=> NextOnChain(l) = <<>>

\* C15. When the walk of log comes to a hash whose object is not in the
\* store, log reports the missing object and stops: it has printed the
\* commits before the missing one on the parent chain, in order, and none
\* after it, and it does not end as if it had come to the root commit.
LogHaltsAtMissing == HaltsAtMissing(LogOutput)

\* log prints the commit HEAD names and then misses its parent.
LogStopsAtLostParent ==
  /\ LogOutput.report = "Fatal: Missing commit object"
  /\ Len(LogOutput.out) = 1

\* The text has a line that starts with tag.
HasLine(text, tag) == \E i \in 1..Len(Lines(text)) : StartsWith(Lines(text)[i], tag)

\* A commit object with its required fields: a parent line and a message
\* line.
WellFormed(text) == HasLine(text, ParentTag) /\ HasLine(text, MessageTag)

FailsIfCorrupt(commitHash, r) ==
  IF WellFormed(objects[commitHash]) THEN r.error = ""
  ELSE r.error = "CorruptObject"

\* C16. getCommitFiles of a non-empty hash fails with a CorruptObject error
\* when the stored object lacks the parent line or the message line, and
\* returns a snapshot only for a well-formed commit object; for the empty
\* hash it returns the empty map.
CorruptObjectFails ==
  /\ getCommitFilesCall(<<>>) = [error |-> "", files |-> EmptyMap]
  /\ \A commitHash \in DOMAIN objects :
       FailsIfCorrupt(commitHash, getCommitFilesCall(commitHash))

\* The part of C16 the code has: the empty hash gives the empty map, and a
\* stored commit object gives its file lines without an error.
WellFormedResolves ==
  /\ getCommitFilesCall(<<>>) = [error |-> "", files |-> EmptyMap]
  /\ \A commitHash \in CommitIds :
       /\ WellFormed(objects[commitHash])
       /\ getCommitFilesCall(commitHash).error = ""

\* C17. HEAD changes only in a commit that ends well: every step of add,
\* log, init and of a commit that creates nothing leaves HEAD, and every
\* step leaves the stored commit objects as they are; when HEAD changes,
\* the new HEAD is a commit object the command has just written, and its
\* parent line holds what HEAD held before.
HeadMovesOnlyInCommit ==
  [][ /\ HEAD' # HEAD =>
           /\ last'.op = "commit"
           /\ last'.report = "Committed"
           /\ HEAD' \in last'.wrote
           /\ HEAD' \in DOMAIN objects'
           /\ StartsWith(objects'[HEAD'], ParentTag)
           /\ ReadCommit(objects'[HEAD']).parentHash = HEAD
      /\ last'.op # "commit" \/ last'.report # "Committed" => HEAD' = HEAD
      /\ \A c \in CommitIds : c \in DOMAIN objects' /\ objects'[c] = objects[c]
    ]_vars

\* HEAD has moved from one commit to the next.
HeadMovedOn ==
  /\ Committed
  /\ HEAD \in last.wrote
  /\ HeadParent # <<>>

\* C18. init where a repository exists changes nothing: HEAD, the index
\* with the entries staged in it and the object store are as before,
\* whatever ran before. init where there is none leaves an empty object
\* store, an empty index and an empty HEAD.
InitIsNoOpOnRepository ==
  IF repoExists
    THEN /\ InitResult.gitDir
         /\ InitResult.objects = objects
         /\ InitResult.HEAD = HEAD
         /\ InitResult.index = index
    ELSE /\ InitResult.gitDir
         /\ InitResult.objects = EmptyMap
         /\ InitResult.HEAD = <<>>
         /\ getStagingArea(InitResult.index) = EmptyMap

\* A repository with a commit and with entries staged after it.
StagedOverHistory ==
  /\ repoExists
  /\ HEAD \in CommitIds
  /\ getStagingArea(index) # EmptyMap

\* A snapshot whose file names and hashes hold no whitespace, and a message
\* without line feed.
PlainSnapshot(files) == \A f \in DOMAIN files : PlainName(f) /\ PlainName(files[f])
OneLine(message) == \A i \in 1..Len(message) : message[i] # "\n"

\* The name of a file line of a commit object.
FileLineName(line) == Words(Substr(line, Len(FileTag)))[1]

\* The file lines of the text come in the order of their file names.
FileLinesSorted(lines) ==
  \A i, j \in 1..Len(lines) :
    i < j /\ StartsWith(lines[i], FileTag) /\ StartsWith(lines[j], FileTag)
      => StrLess(FileLineName(lines[i]), FileLineName(lines[j]))

\* Reading text as log and getCommitFiles do gives the parent, the message
\* and the snapshot back.
ParsesTo(text, parentCommit, message, commitFiles) ==
  /\ ReadCommit(text) = [parentHash |-> parentCommit, message |-> message]
  /\ ParseFiles(Lines(text), 1, EmptyMap) = commitFiles
  /\ FileLinesSorted(Lines(text))
  /\ text = CommitString(parentCommit, message, commitFiles)

CommitRoundTrips(plan, r, message, commitFiles) ==
  plan.report = "" /\ OneLine(message) /\ PlainSnapshot(commitFiles)
    => /\ ParsesTo(plan.commitString, HEAD, message, commitFiles)
       /\ r.report = "Committed"
       /\ r.objects[r.HEAD] = plan.commitString

\* C20. The commit object round trips for well-formed input: for a message
\* without line feed and a snapshot whose file names and hashes hold no
\* whitespace, reading the object that commit stores, as log and
\* getCommitFiles read it, gives the parent hash, the message and the
\* snapshot the commit was made from; the file lines are in the order of
\* the file names, so the text, and with it the commit id, is a function of
\* parent, message and snapshot.
CommitSerializationRoundTrip ==
  repoExists =>
    \A message \in LogMessages :
      CommitRoundTrips(CommitPlan(message, "none"), CommitResult(message, "none"),
                       message, CommitFiles(HEAD, getStagingArea(index)))

\* A commit with a parent and two files has been stored and reads back.
TwoFilesOverParent ==
  /\ Committed
  /\ HeadParent \in CommitIds
  /\ ReadCommit(objects[HEAD]).message \in Messages
  /\ Cardinality(DOMAIN getCommitFiles(HEAD)) = 2

\* The commits log prints: the ones on the parent chain from HEAD.
ReachableCommits == {LogOutput.out[i].commit : i \in 1..Len(LogOutput.out)}

\* The entry of filename with hash is in the index file or in the snapshot
\* of a commit on the chain from HEAD.
Kept(filename, hash, staged) ==
  \/ filename \in DOMAIN staged /\ staged[filename] = hash
  \/ \E c \in ReachableCommits :
       /\ filename \in DOMAIN getCommitFiles(c)
       /\ getCommitFiles(c)[filename] = hash

\* An add of filename has ended well and its entry is nowhere.
Dropped(filename) ==
  /\ filename \in DOMAIN added
  /\ ~Kept(filename, added[filename], getStagingArea(index))

\* C19. Two processes at once are unsafe: where add and commit of two
\* processes interleave their file reads and writes, a state is reached in
\* which the entry of an add that ended without error is neither in the
\* index nor in the snapshot of a commit reachable from HEAD (the state is
\* EntryDropped); commands that run one after the other drop no entry, so
\* an entry is dropped only where the processes have interleaved.
DropsOnlyWhenInterleaved ==
  (\E filename \in RaceFiles : Dropped(filename)) => procs.raced

\* Both processes are done and the entry of an add is lost.
EntryDropped ==
  /\ \A p \in Procs : procs.run[p].pc = "idle"
  /\ \E filename \in RaceFiles : Dropped(filename)

\* The two ways to lose an entry that the claim names: two adds that both
\* load the index before either saves it (no commit was made), and an add
\* that saves between the load of a commit and its clearing of the index
\* (the commit is about to clear an entry it has not loaded).
DroppedByTwoAdds ==
  /\ EntryDropped
  /\ CommitIds = {}
CommitClearsLaterAdd ==
  \E p \in Procs :
    /\ procs.run[p].pc = "clear index"
    /\ \A q \in Procs \ {p} : procs.run[q].pc = "idle"
    /\ \E filename \in DOMAIN getStagingArea(index) :
         /\ filename \in DOMAIN added
         /\ filename \notin DOMAIN procs.run[p].stagedFiles
         /\ filename \notin DOMAIN getCommitFiles(HEAD)

====
